---- MODULE Spec2Model ----
(***************************************************************************)
(* Model of bsl_psql/server.py: the semantic catalog (BSLSemanticCatalog), *)
(* the connection handler (BSLConnection) with its four callbacks, and the *)
(* SQL-to-semantic-query translation done inside handle_query.             *)
(*                                                                         *)
(* The handler keeps no per-connection field of its own: what is recorded  *)
(* here per connection is what its callbacks told the protocol engine      *)
(* (accept, authentication result, disconnect acknowledgement) and the     *)
(* queries handed to handle_query, each with the responses its callback    *)
(* received.                                                               *)
(***************************************************************************)
EXTENDS Integers, Sequences, FiniteSets, TLC

VARIABLES
    tables,        \* BSLSemanticCatalog.tables: dict name -> semantic table
    registered,    \* history: the argument of the latest register_table per name
    connected,     \* per connection: handle_connect answered callback(True)
    authOk,        \* per connection: some handle_auth answered callback(True)
    disconnected,  \* per connection: handle_disconnect has been called
    queries,       \* per connection: the handle_query calls, in dispatch order
    abandoned,     \* history: per connection, the calls (by position) that were
                   \* inside execute() when handle_disconnect ran
    authLog,       \* history: per connection, the recorded handle_auth calls
                   \* with the value each passed to its callback
    server         \* BSLPostgresServer.user and .password

vars == <<tables, registered, connected, authOk, disconnected, queries, abandoned,
          authLog, server>>

----------------------------------------------------------------------------
(* Bounds of the model *)

\* longest SELECT list of a statement
MaxSel == 2
\* longest GROUP BY list of a statement
MaxGroup == 2
\* handle_query calls per connection in the connection-lifecycle specification
MaxQueries == 2
\* recorded handle_auth calls per connection in the authentication specification
MaxAttempts == 3

----------------------------------------------------------------------------
(* Values *)

Conns == {1, 2}

TableNames == {"flights", "sales"}

\* effective column names that occur in statements
ColNames == {"origin", "destination", "total_passengers", "bogus", "nope"}

\* Python's None for Optional[SemanticTable]
None == [obj |-> "None", dimensions |-> {}, measures |-> {}]

\* the semantic table of example_usage.py, cut down to three columns
FlightsTable ==
    [obj |-> "flights_v1",
     dimensions |-> {"origin", "destination"},
     measures |-> {"total_passengers"}]

\* a second semantic table: destination is a measure here, total_passengers is
\* not a column at all, and origin is listed both as a dimension and a measure
OtherTable ==
    [obj |-> "flights_v2",
     dimensions |-> {"origin"},
     measures |-> {"origin", "destination"}]

SemanticTables == {FlightsTable, OtherTable}

Users == {"user", "postgres"}
Passwords == {"secret", "postgres"}
\* where the client connects from, and the database it asks for (None when the
\* engine passes none)
Hosts == {"127.0.0.1", "10.0.0.9"}
NoDatabase == "<no database>"
Databases == {"bsl", NoDatabase}

----------------------------------------------------------------------------
(* SQL statements as written, and what sqlglot.parse_one makes of them *)

NoTable == "<no table>"
NoAlias == "<no alias>"

\* a SELECT item: a bare identifier, or <identifier> AS <alias>
ColSpecs ==
    {[expr |-> n, alias |-> NoAlias] : n \in {"origin", "destination", "total_passengers", "bogus"}}
    \cup {[expr |-> "origin", alias |-> "total_passengers"],
          [expr |-> "bogus", alias |-> "origin"],
          [expr |-> "origin", alias |-> "nope"]}

\* a GROUP BY item: a plain column name, or some other expression (a call)
GroupItems ==
    {[kind |-> "column", name |-> n] : n \in {"origin", "destination"}}
    \cup {[kind |-> "call", name |-> "UPPER"]}

SeqsUpTo(S, lo, hi) == UNION {[1..k -> S] : k \in lo..hi}

\* the statements of the translation specification
Statements ==
    {[wellFormed |-> TRUE, from |-> t, select |-> s, group |-> g] :
        t \in {"flights", NoTable},
        s \in SeqsUpTo(ColSpecs, 1, MaxSel),
        g \in SeqsUpTo(GroupItems, 0, MaxGroup)}
    \cup {[wellFormed |-> FALSE, from |-> NoTable, select |-> <<>>, group |-> <<>>]}

Plain(n) == [expr |-> n, alias |-> NoAlias]

\* the statements of the connection-lifecycle specification
LifeStatements ==
    {[wellFormed |-> TRUE, from |-> "flights",
      select |-> <<Plain("origin"), Plain("total_passengers")>>, group |-> <<>>],
     [wellFormed |-> TRUE, from |-> "flights",
      select |-> <<Plain("bogus")>>, group |-> <<>>],
     [wellFormed |-> TRUE, from |-> "sales",
      select |-> <<Plain("destination")>>, group |-> <<>>],
     [wellFormed |-> FALSE, from |-> NoTable, select |-> <<>>, group |-> <<>>]}

\* sqlglot: a SELECT item "x AS a" is an exp.Alias whose .alias is a; a bare
\* identifier is an exp.Column whose .name is the identifier
SelectNode(cs) ==
    IF cs.alias = NoAlias
    THEN [cls |-> "Column", name |-> cs.expr, alias |-> ""]
    ELSE [cls |-> "Alias", name |-> "", alias |-> cs.alias]

\* sqlglot: a plain column name in GROUP BY is an exp.Column (wrapping an
\* exp.Identifier), any other expression is a node of its own class; no entry
\* of Group.expressions is a bare exp.Identifier
GroupNode(gi) ==
    IF gi.kind = "column"
    THEN [cls |-> "Column", name |-> gi.name]
    ELSE [cls |-> "Anonymous", name |-> gi.name]

\* ast = sqlglot.parse_one(query)
ParseOne(query) ==
    IF ~query.wellFormed
    THEN [error |-> TRUE, table |-> NoTable, selects |-> <<>>, group |-> <<>>]
    ELSE [error |-> FALSE,
          table |-> query.from,
          selects |-> [i \in 1..Len(query.select) |-> SelectNode(query.select[i])],
          group |-> [i \in 1..Len(query.group) |-> GroupNode(query.group[i])]]

----------------------------------------------------------------------------
(* BSLSemanticCatalog *)

\* mutant: a registration never replaces an earlier one (dict.setdefault)
RegisterTableKeepFirst(tbls, name, semantic_table) ==
    [n \in DOMAIN tbls \cup {name} |-> IF n \in DOMAIN tbls THEN tbls[n] ELSE semantic_table]

RegisterTable(tbls, name, semantic_table) ==
    [n \in DOMAIN tbls \cup {name} |-> IF n = name THEN semantic_table ELSE tbls[n]]

\* mutant: a missing name yields an empty semantic table instead of None
GetTableOrEmpty(tbls, name) ==
    IF name \in DOMAIN tbls THEN tbls[name]
    ELSE [obj |-> "empty", dimensions |-> {}, measures |-> {}]

GetTable(tbls, name) ==
    IF name \in DOMAIN tbls THEN tbls[name] ELSE None

ListTables(tbls) == DOMAIN tbls

----------------------------------------------------------------------------
(* handle_query: translation *)

\* mutant: the alias is ignored, the node's own name is taken
SelectColIgnoringAlias(node) == node.name

\* select_cols: alias of an exp.Alias, else the node's name
SelectCol(node) == IF node.cls = "Alias" THEN node.alias ELSE node.name

SelectCols(ast) == [i \in 1..Len(ast.selects) |-> SelectCol(ast.selects[i])]

\* mutant: the name of every GROUP BY entry is taken, whatever its class
ExtractGroupByAnyNode(nodes) == [i \in 1..Len(nodes) |-> nodes[i].name]

\* group_by_cols: the names of the GROUP BY entries that are exp.Identifier
RECURSIVE ExtractGroupBy(_)
ExtractGroupBy(nodes) ==
    IF nodes = <<>> THEN <<>>
    ELSE IF Head(nodes).cls = "Identifier"
         THEN <<Head(nodes).name>> \o ExtractGroupBy(Tail(nodes))
         ELSE ExtractGroupBy(Tail(nodes))

\* mutant: a column that is neither a dimension nor a measure is dropped
RECURSIVE ClassifySkipUnknown(_, _, _, _)
ClassifySkipUnknown(cols, semantic_table, dims, meas) ==
    IF cols = <<>>
    THEN [err |-> "none", col |-> "", dimensions |-> dims, measures |-> meas]
    ELSE LET col == Head(cols) IN
         IF col \in semantic_table.dimensions
         THEN ClassifySkipUnknown(Tail(cols), semantic_table, Append(dims, col), meas)
         ELSE IF col \in semantic_table.measures
              THEN ClassifySkipUnknown(Tail(cols), semantic_table, dims, Append(meas, col))
              ELSE ClassifySkipUnknown(Tail(cols), semantic_table, dims, meas)

\* mutant: the membership tests are two independent ifs
RECURSIVE ClassifyBoth(_, _, _, _)
ClassifyBoth(cols, semantic_table, dims, meas) ==
    IF cols = <<>>
    THEN [err |-> "none", col |-> "", dimensions |-> dims, measures |-> meas]
    ELSE LET col == Head(cols) IN
         IF col \notin semantic_table.dimensions \cup semantic_table.measures
         THEN [err |-> "ColumnNotFound", col |-> col,
               dimensions |-> <<>>, measures |-> <<>>]
         ELSE ClassifyBoth(Tail(cols), semantic_table,
                  IF col \in semantic_table.dimensions THEN Append(dims, col) ELSE dims,
                  IF col \in semantic_table.measures THEN Append(meas, col) ELSE meas)

\* the classification loop: dimensions first, then measures, else raise
RECURSIVE Classify(_, _, _, _)
Classify(cols, semantic_table, dims, meas) ==
    IF cols = <<>>
    THEN [err |-> "none", col |-> "", dimensions |-> dims, measures |-> meas]
    ELSE LET col == Head(cols) IN
         IF col \in semantic_table.dimensions
         THEN Classify(Tail(cols), semantic_table, Append(dims, col), meas)
         ELSE IF col \in semantic_table.measures
              THEN Classify(Tail(cols), semantic_table, dims, Append(meas, col))
              ELSE [err |-> "ColumnNotFound", col |-> col,
                    dimensions |-> <<>>, measures |-> <<>>]

RECURSIVE Dedup(_)
Dedup(xs) ==
    IF xs = <<>> THEN <<>>
    ELSE <<Head(xs)>> \o Dedup(SelectSeq(Tail(xs), LAMBDA x : x /= Head(xs)))

\* mutant: the inferred grouping drops repeated dimensions
InferGroupByDedup(group_by_cols, dimensions) ==
    IF group_by_cols = <<>> /\ dimensions /= <<>> THEN Dedup(dimensions) ELSE group_by_cols

\* "if not group_by_cols and dimensions: group_by_cols = dimensions"
InferGroupBy(group_by_cols, dimensions) ==
    IF group_by_cols = <<>> /\ dimensions /= <<>> THEN dimensions ELSE group_by_cols

Failure(kind, arg, semantic_table) ==
    [err |-> kind, arg |-> arg, table |-> semantic_table,
     dimensions |-> <<>>, measures |-> <<>>, groupBy |-> <<>>]

\* mutant: the check for a missing table node is left out
TranslateNoTableCheck(query, tbls) ==
    LET ast == ParseOne(query) IN
    IF ast.error THEN Failure("ParseError", "", None)
    ELSE LET semantic_table == GetTable(tbls, ast.table) IN
         IF semantic_table = None THEN Failure("TableNotFound", ast.table, None)
         ELSE LET group_by_cols == ExtractGroupBy(ast.group)
                  cl == Classify(SelectCols(ast), semantic_table, <<>>, <<>>)
              IN IF cl.err /= "none" THEN Failure(cl.err, cl.col, semantic_table)
                 ELSE [err |-> "none", arg |-> "", table |-> semantic_table,
                       dimensions |-> cl.dimensions, measures |-> cl.measures,
                       groupBy |-> InferGroupBy(group_by_cols, cl.dimensions)]

\* the body of the try block up to the call of group_by(...).aggregate(...):
\* either the exception raised or the arguments of the semantic query
Translate(query, tbls) ==
    LET ast == ParseOne(query) IN
    IF ast.error THEN Failure("ParseError", "", None)
    ELSE IF ast.table = NoTable THEN Failure("NoTableSpecified", "", None)
    ELSE LET semantic_table == GetTable(tbls, ast.table) IN
         IF semantic_table = None THEN Failure("TableNotFound", ast.table, None)
         ELSE LET group_by_cols == ExtractGroupBy(ast.group)
                  cl == Classify(SelectCols(ast), semantic_table, <<>>, <<>>)
              IN IF cl.err /= "none" THEN Failure(cl.err, cl.col, semantic_table)
                 ELSE [err |-> "none", arg |-> "", table |-> semantic_table,
                       dimensions |-> cl.dimensions, measures |-> cl.measures,
                       groupBy |-> InferGroupBy(group_by_cols, cl.dimensions)]

----------------------------------------------------------------------------
(* Initial state: an empty catalog bound to the connection class, no client *)

Init ==
    /\ tables = << >>
    /\ registered = [n \in TableNames |-> None]
    /\ connected = [c \in Conns |-> FALSE]
    /\ authOk = [c \in Conns |-> FALSE]
    /\ disconnected = [c \in Conns |-> FALSE]
    /\ queries = [c \in Conns |-> << >>]
    /\ abandoned = [c \in Conns |-> {}]
    /\ authLog = [c \in Conns |-> << >>]
    /\ server = [user |-> "postgres", password |-> "postgres"]

\* BSLPostgresServer.register_semantic_table -> BSLSemanticCatalog.register_table
RegisterSemanticTable(name, semantic_table) ==
    /\ tables' = RegisterTable(tables, name, semantic_table)
    /\ registered' = [registered EXCEPT ![name] = semantic_table]
    /\ UNCHANGED <<connected, authOk, disconnected, queries, abandoned, authLog, server>>

\* handle_connect: every incoming connection is accepted
HandleConnect(c) ==
    /\ ~connected[c]
    /\ connected' = [connected EXCEPT ![c] = TRUE]
    /\ UNCHANGED <<tables, registered, authOk, disconnected, queries, abandoned, authLog, server>>

\* BSLPostgresServer.__init__: the username and password arguments are stored
ServerInit(username, password) ==
    /\ server' = [user |-> username, password |-> password]
    /\ UNCHANGED <<tables, registered, connected, authOk, disconnected, queries,
                   abandoned, authLog>>

\* mutant: the pair is compared with the credentials the server was built with
AuthDecisionServerCredentials(user, password) ==
    user = server.user /\ password = server.password

\* the value handle_auth passes to its callback
AuthDecision(user, password) == user = "user" /\ password = "secret"

\* handle_auth: the callback gets the decision; nothing is stored by the handler
HandleAuth(c, user, password) ==
    /\ connected[c]
    /\ authOk' = [authOk EXCEPT ![c] = authOk[c] \/ AuthDecision(user, password)]
    /\ UNCHANGED <<tables, registered, connected, disconnected, queries, abandoned, authLog, server>>

\* handle_auth, with the call and the value given to its callback recorded
HandleAuthLogged(c, user, password, host, database) ==
    /\ connected[c]
    /\ authOk' = [authOk EXCEPT ![c] = authOk[c] \/ AuthDecision(user, password)]
    /\ authLog' = [authLog EXCEPT ![c] =
                      Append(@, [user |-> user, password |-> password,
                                 host |-> host, database |-> database,
                                 accepted |-> AuthDecision(user, password)])]
    /\ UNCHANGED <<tables, registered, connected, disconnected, queries, abandoned,
                   server>>

\* handle_disconnect: acknowledges; it touches no query of the connection
HandleDisconnect(c) ==
    /\ connected[c]
    /\ ~disconnected[c]
    /\ disconnected' = [disconnected EXCEPT ![c] = TRUE]
    /\ abandoned' = [abandoned EXCEPT ![c] =
                        {i \in 1..Len(queries[c]) : queries[c][i].pc = "executing"}]
    /\ UNCHANGED <<tables, registered, connected, authOk, queries, authLog, server>>

\* no call of the semantic table was made
NoCall == [group_by |-> << >>, aggregate |-> << >>, executes |-> 0]

\* mutant: every selected column is handed to aggregate()
SemanticCallAllColumns(plan) ==
    [group_by |-> plan.groupBy, aggregate |-> plan.dimensions \o plan.measures,
     executes |-> 1]

\* semantic_table.group_by(*group_by_cols).aggregate(*measures), then one
\* bsl_query.execute()
SemanticCall(plan) ==
    [group_by |-> plan.groupBy, aggregate |-> plan.measures, executes |-> 1]

\* mutant: the except clause logs the error and answers nothing
RejectedSilently(query, plan) ==
    [stmt |-> query, plan |-> plan, invoked |-> FALSE, pc |-> "done",
     resp |-> << >>, raised |-> TRUE, exc |-> plan.err, call |-> NoCall]

\* the except clause: callback(None, None, str(e)), then the bare raise
Rejected(query, plan) ==
    [stmt |-> query, plan |-> plan, invoked |-> FALSE, pc |-> "done",
     resp |-> <<plan.err>>, raised |-> TRUE, exc |-> plan.err, call |-> NoCall]

\* group_by(...).aggregate(...) built, the handler is inside execute()
Started(query, plan) ==
    [stmt |-> query, plan |-> plan, invoked |-> TRUE, pc |-> "executing",
     resp |-> << >>, raised |-> FALSE, exc |-> "none", call |-> SemanticCall(plan)]

\* mutant: a failed lookup leaves an empty entry under the name in the catalog
HandleQueryBeginCachingMiss(c, query) ==
    /\ connected[c]
    /\ LET plan == Translate(query, tables) IN
       /\ queries' = [queries EXCEPT ![c] =
                         Append(@, IF plan.err = "none" THEN Started(query, plan)
                                   ELSE Rejected(query, plan))]
       /\ tables' = IF plan.err = "TableNotFound"
                    THEN RegisterTable(tables, query.from, None)
                    ELSE tables
    /\ UNCHANGED <<registered, connected, authOk, disconnected, abandoned, authLog, server>>

\* handle_query from its entry to the call of the semantic table; the method
\* reads no connection state before it parses and looks the table up
HandleQueryBegin(c, query) ==
    /\ connected[c]
    /\ LET plan == Translate(query, tables) IN
       queries' = [queries EXCEPT ![c] =
                      Append(@, IF plan.err = "none" THEN Started(query, plan)
                                ELSE Rejected(query, plan))]
    /\ UNCHANGED <<tables, registered, connected, authOk, disconnected, abandoned, authLog, server>>

\* how the rest of the try block can end: execute() and send_reader are calls
\* into the backend and the protocol engine and may raise
Outcomes == {"delivered", "backendError", "sendFailedBefore", "sendFailedAfter"}

\* the responses the callback receives from line 137 on, the exception caught
\* by the except clause (if any), and whether the handler ends by raising
Finished(q, outcome) ==
    [q EXCEPT
       !.pc = "done",
       !.resp = CASE outcome = "delivered" -> <<"result">>
                  [] outcome = "backendError" -> <<"ExecutionError">>
                  [] outcome = "sendFailedBefore" -> <<"SendError">>
                  [] OTHER -> <<"result", "SendError">>,
       !.raised = (outcome /= "delivered"),
       !.exc = CASE outcome = "delivered" -> "none"
                 [] outcome = "backendError" -> "ExecutionError"
                 [] OTHER -> "SendError"]

\* handle_query from the return of execute() to its end
HandleQueryFinish(c, i, outcome) ==
    /\ i \in 1..Len(queries[c])
    /\ queries[c][i].pc = "executing"
    /\ queries' = [queries EXCEPT ![c][i] = Finished(@, outcome)]
    /\ UNCHANGED <<tables, registered, connected, authOk, disconnected, abandoned, authLog, server>>

----------------------------------------------------------------------------
(* The connection states of the design, read off what the callbacks did *)

Executing(c) == \E i \in 1..Len(queries[c]) : queries[c][i].pc = "executing"

ConnState(c) ==
    IF ~connected[c] THEN "NotConnected"
    ELSE IF disconnected[c] THEN "Terminated"
    ELSE IF ~authOk[c] THEN "Unauthenticated"
    ELSE IF Executing(c) THEN "Executing"
    ELSE "Idle"

----------------------------------------------------------------------------
(* Spec: one connection driven by an arbitrary protocol engine, which may   *)
(* call any callback of a connected handler at any time, and a catalog that *)
(* may be re-registered at any time.                                        *)

LifeConns == {1}

Next ==
    \/ \E n \in TableNames, d \in SemanticTables : RegisterSemanticTable(n, d)
    \/ \E c \in LifeConns : HandleConnect(c)
    \/ \E c \in LifeConns, u \in Users, p \in Passwords : HandleAuth(c, u, p)
    \/ \E c \in LifeConns : HandleDisconnect(c)
    \/ \E c \in LifeConns :
          /\ Len(queries[c]) < MaxQueries
          /\ \E s \in LifeStatements : HandleQueryBegin(c, s)
    \/ \E c \in LifeConns, i \in 1..MaxQueries, o \in Outcomes :
          HandleQueryFinish(c, i, o)

Spec == Init /\ [][Next]_vars

----------------------------------------------------------------------------
(* SpecT: the first query of a connection, over every statement of the      *)
(* bounded grammar; the engine is well behaved (tables are registered       *)
(* before serving, the query follows a successful authentication).          *)

NextT ==
    \/ /\ ~connected[1]
       /\ \E d \in SemanticTables : RegisterSemanticTable("flights", d)
    \/ HandleConnect(1)
    \/ /\ ConnState(1) = "Unauthenticated"
       /\ \E u \in Users, p \in Passwords : HandleAuth(1, u, p)
    \/ /\ ConnState(1) = "Idle"
       /\ queries[1] = << >>
       /\ \E s \in Statements : HandleQueryBegin(1, s)
    \/ \E o \in Outcomes : HandleQueryFinish(1, 1, o)

SpecT == Init /\ [][NextT]_vars

----------------------------------------------------------------------------
(* SpecSeq: two connections served by an engine that dispatches as the      *)
(* design's scheduling model says: per connection one callback at a time,   *)
(* the next query only after the previous handle_query call has returned;   *)
(* connections run independently of each other.                             *)

\* mutant: handle_query hands the work to a background task and returns
ReturnedAtOnce(q) == TRUE

\* handle_query is synchronous: the call returns (or raises) only after the
\* except clause or send_reader has run
Returned(q) == q.pc = "done"

\* the previous callbacks of the connection have all returned
Quiet(c) == \A i \in 1..Len(queries[c]) : Returned(queries[c][i])

SeqStatements ==
    {[wellFormed |-> TRUE, from |-> "flights",
      select |-> <<Plain("origin"), Plain("total_passengers")>>, group |-> <<>>],
     [wellFormed |-> TRUE, from |-> "flights",
      select |-> <<Plain("bogus")>>, group |-> <<>>]}

NextSeq ==
    \/ /\ \A c \in Conns : ~connected[c]
       /\ \E d \in SemanticTables : RegisterSemanticTable("flights", d)
    \/ \E c \in Conns : HandleConnect(c)
    \/ \E c \in Conns :
          /\ ConnState(c) = "Unauthenticated"
          /\ \E u \in Users, p \in Passwords : HandleAuth(c, u, p)
    \/ \E c \in Conns :
          /\ authOk[c]
          /\ Quiet(c)
          /\ Len(queries[c]) < MaxQueries
          /\ \E s \in SeqStatements : HandleQueryBegin(c, s)
    \/ \E c \in Conns, i \in 1..MaxQueries, o \in Outcomes :
          HandleQueryFinish(c, i, o)

SpecSeq == Init /\ [][NextSeq]_vars

----------------------------------------------------------------------------
(* SpecA: authentication of one connection. The server is built with any    *)
(* credentials before it accepts the connection; the engine then calls      *)
(* handle_auth any number of times (bounded here), from any host and for    *)
(* any database, whether or not an earlier attempt was accepted.            *)

NextA ==
    \/ /\ ~connected[1]
       /\ \E u \in Users, p \in Passwords : ServerInit(u, p)
    \/ HandleConnect(1)
    \/ /\ Len(authLog[1]) < MaxAttempts
       /\ \E u \in Users, p \in Passwords, h \in Hosts, db \in Databases :
             HandleAuthLogged(1, u, p, h, db)

SpecA == Init /\ [][NextA]_vars

----------------------------------------------------------------------------
(* Vocabulary of the properties, read off the statement as written *)

Range(f) == {f[i] : i \in DOMAIN f}

\* the handle_query calls made so far on connection c
Calls(c) == Range(queries[c])

AllCalls == UNION {Calls(c) : c \in Conns}

\* the effective name of a SELECT item: its alias if it has one
WrittenName(cs) == IF cs.alias = NoAlias THEN cs.expr ELSE cs.alias

WrittenNames(stmt) == [i \in 1..Len(stmt.select) |-> WrittenName(stmt.select[i])]

\* the statement has a GROUP BY clause that lists plain column names only
HasPlainGroupBy(stmt) ==
    /\ stmt.group /= << >>
    /\ \A i \in 1..Len(stmt.group) : stmt.group[i].kind = "column"

WrittenGroupBy(stmt) == [i \in 1..Len(stmt.group) |-> stmt.group[i].name]

NamesTable(stmt) == stmt.wellFormed /\ stmt.from /= NoTable

\* the SELECT positions whose name is no column of semantic table d
UnknownAt(stmt, d) ==
    {i \in 1..Len(stmt.select) :
        WrittenName(stmt.select[i]) \notin (d.dimensions \cup d.measures)}

FirstOf(S) == CHOOSE i \in S : \A j \in S : i <= j

IsDim(d) == [n \in ColNames |-> n \in d.dimensions]

\* the call failed without reaching the semantic table and answered once
RejectedWith(q, kind, arg) ==
    /\ q.plan.err = kind
    /\ q.plan.arg = arg
    /\ ~q.invoked
    /\ q.pc = "done"
    /\ q.resp = <<kind>>
    /\ q.plan.dimensions = << >> /\ q.plan.measures = << >> /\ q.plan.groupBy = << >>

----------------------------------------------------------------------------
(* C1..C4: translation, under SpecT (the catalog is fixed once the         *)
(* connection exists, so registered[] is the catalog the query saw)        *)

\* C1: a query whose GROUP BY lists plain column names groups by exactly that
\* list, in its written order, whatever dimensions are selected.
C1_ExplicitGroupByWins ==
    \A q \in AllCalls :
        (q.plan.err = "none" /\ HasPlainGroupBy(q.stmt))
            => q.plan.groupBy = WrittenGroupBy(q.stmt)

\* C2: without a GROUP BY clause, groupBy is the selected names that are
\* dimensions of the table, in SELECT order with duplicates kept (empty when
\* none is); SELECT origin, total_passengers FROM flights gives dimensions
\* [origin], measures [total_passengers], groupBy [origin].
C2_InferredGroupBy ==
    \A q \in AllCalls :
        /\ (q.plan.err = "none" /\ q.stmt.group = << >>)
              => q.plan.groupBy =
                   SelectSeq(WrittenNames(q.stmt),
                             LAMBDA n : IsDim(registered[q.stmt.from])[n])
        /\ (/\ q.stmt.from = "flights"
            /\ registered["flights"] = FlightsTable
            /\ q.stmt.select = <<Plain("origin"), Plain("total_passengers")>>
            /\ q.stmt.group = << >>)
              => /\ q.plan.err = "none"
                 /\ q.plan.dimensions = <<"origin">>
                 /\ q.plan.measures = <<"total_passengers">>
                 /\ q.plan.groupBy = <<"origin">>

\* a query without GROUP BY that selects the same dimension twice and groups
\* by it twice
C2_Witness ==
    \E q \in AllCalls :
        /\ q.stmt.group = << >>
        /\ q.plan.err = "none"
        /\ q.stmt.select = <<Plain("origin"), Plain("origin")>>
        /\ q.plan.groupBy = <<"origin", "origin">>

\* C3: if some selected name is neither a dimension nor a measure of the
\* resolved table, the query fails with ColumnNotFound naming the first such
\* name, the semantic table is never invoked, and the only response is the
\* error (no batch, no partial translation).
C3_AllOrNothing ==
    \A q \in AllCalls :
        (/\ NamesTable(q.stmt)
         /\ registered[q.stmt.from] /= None
         /\ UnknownAt(q.stmt, registered[q.stmt.from]) /= {})
            => RejectedWith(q, "ColumnNotFound",
                 WrittenNames(q.stmt)[FirstOf(UnknownAt(q.stmt, registered[q.stmt.from]))])

\* a rejected query whose first column is a dimension and whose second column
\* is the unknown one
C3_Witness ==
    \E q \in AllCalls :
        /\ q.plan.err = "ColumnNotFound"
        /\ Len(q.stmt.select) = 2
        /\ WrittenName(q.stmt.select[1]) \in registered[q.stmt.from].dimensions
        /\ q.plan.arg = WrittenName(q.stmt.select[2])
        /\ q.resp = <<"ColumnNotFound">>

\* C4: a query naming a table that is not in the catalog fails with
\* TableNotFound whatever its SELECT list is, and nothing is executed.
C4_TableNotFound ==
    \A q \in AllCalls :
        (NamesTable(q.stmt) /\ registered[q.stmt.from] = None)
            => RejectedWith(q, "TableNotFound", q.stmt.from)

\* a query against an unregistered table whose SELECT list also holds a name
\* that is a column of no semantic table
C4_Witness ==
    \E q \in AllCalls :
        /\ q.plan.err = "TableNotFound"
        /\ \E i \in 1..Len(q.stmt.select) : WrittenName(q.stmt.select[i]) = "bogus"
        /\ q.resp = <<"TableNotFound">>

----------------------------------------------------------------------------
(* C5..C10: catalog and connection lifecycle, under Spec *)

\* the call classified its columns with the sets of semantic table d alone
ClassifiedWith(q, d) ==
    /\ q.plan.table = d
    /\ (q.plan.err = "none") = (UnknownAt(q.stmt, d) = {})
    /\ q.plan.err \in {"none", "ColumnNotFound"}
    /\ q.plan.err = "none" =>
          /\ q.plan.dimensions =
               SelectSeq(WrittenNames(q.stmt), LAMBDA n : n \in d.dimensions)
          /\ q.plan.measures =
               SelectSeq(WrittenNames(q.stmt),
                         LAMBDA n : n \notin d.dimensions /\ n \in d.measures)

\* the call that a step has just added to connection c, if it added one
Dispatched(c) == Len(queries'[c]) = Len(queries[c]) + 1

NewCall(c) == queries'[c][Len(queries'[c])]

\* C5: lookup(name) is the argument of the latest register(name, _), absent
\* if there was none; a registration changes the lookup of no other name; and
\* a query against a name classifies its columns with the latest descriptor.
C5_LastRegistrationWins ==
    /\ [](\A n \in TableNames : GetTable(tables, n) = registered[n])
    /\ [][\A n \in TableNames :
             registered'[n] = registered[n] => GetTable(tables', n) = GetTable(tables, n)]_vars
    /\ [][\A c \in Conns :
             (Dispatched(c) /\ NamesTable(NewCall(c).stmt)) =>
                 IF registered[NewCall(c).stmt.from] = None
                 THEN NewCall(c).plan.err = "TableNotFound"
                 ELSE ClassifiedWith(NewCall(c), registered[NewCall(c).stmt.from])]_vars

\* two queries with the same text against flights, the first translated with
\* the first registration, the second rejected by the sets of the second
C5_Witness ==
    \E c \in Conns :
        /\ Len(queries[c]) = 2
        /\ queries[c][1].stmt = queries[c][2].stmt
        /\ queries[c][1].plan.table = FlightsTable
        /\ queries[c][1].plan.err = "none"
        /\ queries[c][2].plan.table = OtherTable
        /\ queries[c][2].plan.err = "ColumnNotFound"
        /\ GetTable(tables, "flights") = OtherTable
        /\ GetTable(tables, "sales") = None

\* C6: a query that fails translation is answered with an error and the
\* failure stays inside the query handler: nothing is raised to the protocol
\* engine that could close the connection or the process.
C6_FailureContained ==
    \A q \in AllCalls :
        (q.pc = "done" /\ q.plan.err /= "none") => (q.resp = <<q.plan.err>> /\ ~q.raised)

\* C7: the callback of a query is completed exactly once, with a result or
\* with an error, never with both.
C7_ExactlyOneResponse ==
    \A q \in AllCalls :
        /\ q.pc = "executing" => q.resp = << >>
        /\ q.pc = "done" => Len(q.resp) = 1

\* C8: a query that was executing when the disconnect notification of its
\* connection arrived gets no response: neither a result batch nor an error.
C8_NoResponseAfterDisconnect ==
    \A c \in Conns :
        \A i \in abandoned[c] : queries[c][i].resp = << >>

\* C9: on a connection no authentication attempt of which has succeeded, no
\* query reaches the catalog or the semantic table.
C9_NoQueryBeforeAuth ==
    \A c \in Conns :
        ~authOk[c] =>
            \A q \in Calls(c) :
                ~q.invoked /\ q.plan.err \notin {"none", "TableNotFound", "ColumnNotFound"}

\* C10: at most one query of a connection is executing at any time.
C10_OneQueryInFlight ==
    \A c \in Conns :
        Cardinality({i \in 1..Len(queries[c]) : queries[c][i].pc = "executing"}) <= 1

----------------------------------------------------------------------------
(* C11: ordering, under SpecSeq *)

\* the responses call number j of a connection has received (none if there
\* is no such call yet)
RespOf(qs, j) == IF j <= Len(qs) THEN qs[j].resp ELSE << >>

\* C11: on one connection the responses come in submission order: when a
\* call gets a response, every call submitted before it on that connection
\* has had its own, and no call submitted after it has had one.
C11_ResponsesInSubmissionOrder ==
    [][\A c \in Conns : \A j \in 1..Len(queries'[c]) :
          RespOf(queries'[c], j) /= RespOf(queries[c], j) =>
              /\ \A i \in 1..(j - 1) : RespOf(queries[c], i) /= << >>
              /\ \A k \in (j + 1)..Len(queries'[c]) : RespOf(queries'[c], k) = << >>]_vars

\* connection 1 has had its first query answered and its second is still
\* executing, while a query of connection 2 has already been answered
C11_Witness ==
    /\ Len(queries[1]) = 2
    /\ queries[1][1].resp /= << >>
    /\ queries[1][2].pc = "executing"
    /\ Len(queries[2]) >= 1
    /\ queries[2][1].resp /= << >>

----------------------------------------------------------------------------
(* C12, C13: failures, under SpecT *)

QueryFailures ==
    {"ParseError", "NoTableSpecified", "TableNotFound", "ColumnNotFound", "ExecutionError"}

\* C12: a query that ends with a parse error, NoTableSpecified, TableNotFound,
\* ColumnNotFound or an error of the backend has exactly the message of that
\* error as its response, with no batch, and the connection is Idle again; a
\* statement that cannot be parsed or translated does end with its error.
C12_FailuresDelivered ==
    \A c \in Conns : \A q \in Calls(c) :
        /\ (q.pc = "done" /\ q.exc \in QueryFailures)
              => /\ q.resp = <<q.exc>>
                 /\ ConnState(c) = "Idle"
        /\ q.pc = "executing" => q.exc = "none"
        /\ ~q.stmt.wellFormed => q.exc = "ParseError"
        /\ q.plan.err /= "none" => q.exc = q.plan.err

\* a query whose backend failed: one error response, connection Idle
C12_Witness ==
    \E q \in Calls(1) :
        /\ q.invoked
        /\ q.exc = "ExecutionError"
        /\ q.resp = <<"ExecutionError">>
        /\ ConnState(1) = "Idle"

\* C13: a statement that names no table fails with NoTableSpecified, whatever
\* its SELECT list and whatever the catalog holds: no table is looked up, no
\* column is classified and the semantic table is not called.
C13_NoTableSpecified ==
    \A q \in AllCalls :
        (q.stmt.wellFormed /\ q.stmt.from = NoTable)
            => /\ RejectedWith(q, "NoTableSpecified", "")
               /\ q.plan.table = None
               /\ q.call = NoCall

\* a statement without a table whose SELECT list holds an unknown name,
\* handled while a table is registered
C13_Witness ==
    \E q \in AllCalls :
        /\ q.stmt.wellFormed
        /\ q.stmt.from = NoTable
        /\ \E i \in 1..Len(q.stmt.select) : WrittenName(q.stmt.select[i]) = "bogus"
        /\ GetTable(tables, "flights") /= None
        /\ q.resp = <<"NoTableSpecified">>

----------------------------------------------------------------------------
(* C14, C17: under Spec *)

\* C14: once a connection has had its disconnect notification it stays
\* Terminated, and a query submitted on it afterwards is not executed and
\* produces no result.
C14_TerminatedIsTerminal ==
    [][\A c \in Conns :
          disconnected[c] =>
              /\ disconnected'[c]
              /\ Dispatched(c) =>
                    /\ ~NewCall(c).invoked
                    /\ NewCall(c).call = NoCall
                    /\ NewCall(c).plan.err \notin {"none", "TableNotFound", "ColumnNotFound"}]_vars

----------------------------------------------------------------------------
(* C15, C16, C19, C20: translation, under SpecT *)

\* the selected names that are measures (and not dimensions) of table d
WrittenMeasures(stmt, d) ==
    SelectSeq(WrittenNames(stmt), LAMBDA n : n \notin d.dimensions /\ n \in d.measures)

\* the selected names that are dimensions of table d
WrittenDimensions(stmt, d) ==
    SelectSeq(WrittenNames(stmt), LAMBDA n : n \in d.dimensions)

\* C15: a query that translates executes the semantic table exactly once,
\* grouped by groupBy and aggregating the selected measures in SELECT order,
\* duplicates kept; no selected dimension is aggregated. A query that does not
\* translate executes nothing.
C15_ExecutedOnceWithTranslation ==
    \A q \in AllCalls :
        /\ q.plan.err = "none" =>
              /\ q.call.executes = 1
              /\ q.call.group_by = q.plan.groupBy
              /\ q.call.aggregate = WrittenMeasures(q.stmt, registered[q.stmt.from])
              /\ \A n \in Range(q.call.aggregate) : n \notin Range(q.plan.dimensions)
        /\ q.plan.err /= "none" => q.call.executes = 0

\* a query selecting the same measure twice and no dimension: no grouping,
\* the measure aggregated twice
C15_Witness ==
    \E q \in AllCalls :
        /\ q.stmt.select = <<Plain("total_passengers"), Plain("total_passengers")>>
        /\ q.plan.err = "none"
        /\ q.call = [group_by |-> << >>,
                     aggregate |-> <<"total_passengers", "total_passengers">>,
                     executes |-> 1]

\* C16: a selected column is classified by its effective name (the alias when
\* it has one, else the identifier), whatever expression stands behind the
\* alias: the query fails with ColumnNotFound exactly when some effective name
\* is in neither set, and otherwise each effective name is among the
\* dimensions exactly when it is a dimension of the table and among the
\* measures exactly when it is a measure and not a dimension.
C16_ClassifiedByEffectiveName ==
    \A q \in AllCalls :
        (NamesTable(q.stmt) /\ registered[q.stmt.from] /= None) =>
            LET d == registered[q.stmt.from]
                eff == WrittenNames(q.stmt)
            IN /\ (q.plan.err = "ColumnNotFound") =
                     (\E i \in DOMAIN eff : eff[i] \notin d.dimensions \cup d.measures)
               /\ q.plan.err = "none" =>
                     /\ Range(q.plan.dimensions) \cup Range(q.plan.measures) = Range(eff)
                     /\ \A i \in DOMAIN eff :
                           /\ (eff[i] \in Range(q.plan.dimensions)) = (eff[i] \in d.dimensions)
                           /\ (eff[i] \in Range(q.plan.measures)) =
                                 (eff[i] \notin d.dimensions /\ eff[i] \in d.measures)

\* 'origin AS total_passengers, bogus AS origin' against the flights table: the
\* first column is the measure total_passengers, the second the dimension
\* origin although bogus is no column
C16_Witness ==
    \E q \in AllCalls :
        /\ q.stmt.select = <<[expr |-> "origin", alias |-> "total_passengers"],
                             [expr |-> "bogus", alias |-> "origin"]>>
        /\ NamesTable(q.stmt)
        /\ registered[q.stmt.from] = FlightsTable
        /\ q.plan.err = "none"
        /\ q.plan.measures = <<"total_passengers">>
        /\ q.plan.dimensions = <<"origin">>

\* the names at the positions of xs that lab sends to k, in order
Pick(xs, lab, k) ==
    LET idx == SelectSeq([i \in 1..Len(xs) |-> i], LAMBDA i : lab[i] = k)
    IN [j \in 1..Len(idx) |-> xs[idx[j]]]

\* C19: in a successful translation every SELECT position is labelled either
\* dimension or measure, the dimensions and the measures are the names at the
\* positions so labelled, in SELECT order, and their lengths sum to the length
\* of the SELECT list; a position is labelled dimension exactly when its name
\* is a dimension of the table (also when it is a measure too), and a position
\* labelled measure holds a measure.
C19_SelectListPartitioned ==
    \A q \in AllCalls :
        q.plan.err = "none" =>
            LET d == registered[q.stmt.from]
                eff == WrittenNames(q.stmt)
            IN /\ Len(q.plan.dimensions) + Len(q.plan.measures) = Len(eff)
               /\ \E lab \in [DOMAIN eff -> {"dimension", "measure"}] :
                     /\ q.plan.dimensions = Pick(eff, lab, "dimension")
                     /\ q.plan.measures = Pick(eff, lab, "measure")
                     /\ \A i \in DOMAIN eff :
                           /\ (lab[i] = "dimension") = (eff[i] \in d.dimensions)
                           /\ lab[i] = "measure" => eff[i] \in d.measures

\* 'destination, origin' against the table where origin is both a dimension
\* and a measure: origin is a dimension only
C19_Witness ==
    \E q \in AllCalls :
        /\ q.stmt.select = <<Plain("destination"), Plain("origin")>>
        /\ NamesTable(q.stmt)
        /\ registered[q.stmt.from] = OtherTable
        /\ q.plan.err = "none"
        /\ q.plan.dimensions = <<"origin">>
        /\ q.plan.measures = <<"destination">>

\* the statement without its GROUP BY clause
WithoutGroupBy(stmt) == [stmt EXCEPT !.group = << >>]

\* C20: no GROUP BY entry the parser yields passes the filter, so every
\* statement with a GROUP BY clause is handled as the same statement without
\* the clause: same error or same translation, groupBy being the selected
\* dimensions (empty if none is selected), and the same call of the semantic
\* table.
C20_SkippedGroupByIsNoGroupBy ==
    \A q \in AllCalls :
        q.stmt.group /= << >> =>
            /\ q.plan = Translate(WithoutGroupBy(q.stmt), tables)
            /\ q.plan.groupBy = q.plan.dimensions
            /\ q.call.group_by = q.plan.dimensions
            /\ (q.plan.err = "none") =
                  (/\ NamesTable(q.stmt)
                   /\ registered[q.stmt.from] /= None
                   /\ UnknownAt(q.stmt, registered[q.stmt.from]) = {})

\* 'SELECT origin, total_passengers ... GROUP BY UPPER(..), destination': both
\* entries are skipped, the query is grouped by origin and answered
C20_Witness ==
    \E q \in AllCalls :
        /\ q.stmt.select = <<Plain("origin"), Plain("total_passengers")>>
        /\ q.stmt.group = <<[kind |-> "call", name |-> "UPPER"],
                            [kind |-> "column", name |-> "destination"]>>
        /\ q.plan.err = "none"
        /\ q.call.group_by = <<"origin">>
        /\ q.resp = <<"result">>

----------------------------------------------------------------------------
(* C17: the catalog is written by registration only, under Spec *)

\* C17: a step of a connection handler (connect, authenticate, disconnect, the
\* begin or the end of a query, successful or failed) leaves the catalog as it
\* was; a step that changes the catalog is one register_table and changes
\* nothing of any connection.
C17_OnlyRegistrationWritesCatalog ==
    [][/\ (connected' /= connected \/ authOk' /= authOk
             \/ disconnected' /= disconnected \/ queries' /= queries)
          => tables' = tables
       /\ tables' /= tables =>
             /\ \E n \in TableNames, d \in SemanticTables :
                   tables' = RegisterTable(tables, n, d)
             /\ UNCHANGED <<connected, authOk, disconnected, queries>>]_vars

\* a connection that was authenticated, ran a query that succeeded and one
\* that failed and was closed, while the catalog still holds exactly what was
\* registered
C17_Witness ==
    /\ disconnected[1] /\ authOk[1]
    /\ \E q \in Calls(1) : q.plan.err = "none" /\ q.resp = <<"result">>
    /\ \E q \in Calls(1) : q.plan.err /= "none"
    /\ DOMAIN tables = {"flights"}
    /\ tables["flights"] = registered["flights"]

----------------------------------------------------------------------------
(* C18: authentication, under SpecA *)

====
